---- MODULE Spec2Model ----
(***************************************************************************)
(* One run of main() of Text2sql.py: a source mode is selected, each       *)
(* source file is acquired, decoded by read_data, loaded into its own      *)
(* SQLite file by create_sqlite_db_from_dataframe; then the query is run   *)
(* against every entry of db_paths and the database files are removed.     *)
(* The working directory is the function fs from path to file content.     *)
(* The outcomes of the libraries (requests, pandas, pyreadstat, sas7bdat,  *)
(* sqlite3, langchain) are inputs chosen at the step that calls them.      *)
(***************************************************************************)
EXTENDS Naturals, Sequences, FiniteSets, TLC

\* Longest batch of source files a user hands to one run.
MaxFiles == 3

VARIABLES
    pc,             \* position of main()
    source_option,  \* st.radio choice
    items,          \* uploaded_files / urls / supported_files / DEFAULT_FILES
    i,              \* index of the item the acquisition loop is at
    flo,            \* file_like_object handed to read_data
    df,             \* value returned by read_data
    fs,             \* files on disk: path -> content
    db_paths,       \* list db_paths of main()
    query,          \* whether a query was entered
    results,        \* list results of main()
    j,              \* index into db_paths of the query loop / the removal loop
    displayed,      \* st.write output
    ui,             \* st.error / st.warning output
    calls,          \* calls made to requests and to the agent framework, in order
    status          \* per item: what became of it

vars == <<pc, source_option, items, i, flo, df, fs, db_paths, query, results, j,
          displayed, ui, calls, status>>

----------------------------------------------------------------------------
\* File names: base name and extension, as os.path.splitext separates them.

Name(b, e) == [base |-> b, ext |-> e]

FileName(n) == n.base \o n.ext

SupportedExts == {".csv", ".xlsx", ".xpt"}

\* Names a user can upload or find in a folder (the uploader and the folder
\* scan both filter on the three extensions).
SupportedNames == {Name("a", ".csv"), Name("a", ".xpt"), Name("b", ".xlsx")}

\* Base names of URLs: any extension.
UrlNames == SupportedNames \cup {Name("b", ".txt")}

DEFAULT_FILES == <<Name("AE", ".csv"), Name("DM", ".csv"), Name("LB", ".csv"), Name("IE", ".csv")>>

SourceOptions == {"Upload files", "Use files from URL", "Use files from folder",
                  "Use default files from GitHub"}

SeqsUpTo(S, n) == UNION {[1..k -> S] : k \in 0..n}

IsInjective(s) == \A a, b \in DOMAIN s : s[a] = s[b] => a = b

\* The rows a well-formed source file of that name decodes to.
DataOf(n) == <<n>>

----------------------------------------------------------------------------
\* Files on disk.

NoTables == [t \in {} |-> <<>>]

DataFile(rows) == [kind |-> "data", rows |-> rows, tables |-> NoTables]

DbFile(tables) == [kind |-> "db", rows |-> <<>>, tables |-> tables]

Exists(fsys, p) == p \in DOMAIN fsys

\* open(p, "wb"); f.write(rows): creates the file or replaces its content
WriteFile(fsys, p, rows) == (p :> DataFile(rows)) @@ fsys

\* os.remove(p) of an existing file
RemoveFile(fsys, p) == [q \in DOMAIN fsys \ {p} |-> fsys[q]]

TempPath(n) == "temp_" \o FileName(n)

FolderDir == "data/"

\* db_path of main(): temp_<base>.db for uploads, <base>.db otherwise
DbPath(opt, n) == IF opt = "Upload files" THEN "temp_" \o n.base \o ".db"
                  ELSE n.base \o ".db"

\* os.path.splitext(name)[0]
TableName(n) == n.base

----------------------------------------------------------------------------
\* Values.

NoDf == [some |-> FALSE, rows |-> <<>>]
SomeDf(rows) == [some |-> TRUE, rows |-> rows]

PathArg(p) == [is_path |-> TRUE, path |-> p, text |-> <<>>]
StreamArg(rows) == [is_path |-> FALSE, path |-> "", text |-> rows]
NoArg == [is_path |-> FALSE, path |-> "", text |-> <<>>]

Msg(k, a) == [kind |-> k, about |-> a]

Call(op, a) == [op |-> op, about |-> a]

Init ==
    /\ pc = "start"
    /\ source_option = ""
    /\ items = <<>>
    /\ i = 0
    /\ flo = NoArg
    /\ df = NoDf
    /\ fs = [p \in {} |-> DataFile(<<>>)]
    /\ db_paths = <<>>
    /\ query = FALSE
    /\ results = <<>>
    /\ j = 0
    /\ displayed = <<>>
    /\ ui = <<>>
    /\ calls = <<>>
    /\ status = <<>>

\* main(): the API key prompt and the source radio
Start ==
    /\ pc = "start"
    /\ \E key \in BOOLEAN, opt \in SourceOptions :
         IF key
         THEN /\ source_option' = opt
              /\ pc' = "acquire"
              /\ ui' = ui
         ELSE /\ source_option' = source_option
              /\ pc' = "returned"
              /\ ui' = Append(ui, Msg("warning_api_key", ""))
    /\ UNCHANGED <<items, i, flo, df, fs, db_paths, query, results, j, displayed, calls, status>>

\* First step of the loop body for one item, per source mode
FirstStep(opt) ==
    CASE opt = "Upload files" -> "upload_save"
      [] opt = "Use files from URL" -> "fetch"
      [] opt = "Use files from folder" -> "folder_path"
      [] OTHER -> "fetch"

\* The for loop moves to its next item, or main() goes on to the query part
Advance ==
    IF i < Len(items)
    THEN i' = i + 1 /\ pc' = FirstStep(source_option)
    ELSE i' = i /\ pc' = "query"

\* End of the loop body: the upload loop still removes its copy (line 118)
ItemDone ==
    IF source_option = "Upload files"
    THEN i' = i /\ pc' = "upload_remove"
    ELSE Advance

\* Entering a loop over a list of items
EnterLoop(list) ==
    /\ items' = list
    /\ status' = [k \in 1..Len(list) |-> "pending"]
    /\ IF list = <<>>
       THEN i' = 0 /\ pc' = "query"
       ELSE i' = 1 /\ pc' = FirstStep(source_option)

\* st.file_uploader: the batch of uploaded files
AcquireUpload ==
    /\ pc = "acquire"
    /\ source_option = "Upload files"
    /\ \E files \in SeqsUpTo(SupportedNames, MaxFiles) : EnterLoop(files)
    /\ UNCHANGED <<source_option, flo, df, fs, db_paths, query, results, j, displayed, ui, calls>>

\* st.text_area: the URLs, one per line (a blank text area gives no URL)
AcquireUrl ==
    /\ pc = "acquire"
    /\ source_option = "Use files from URL"
    /\ \E urls \in SeqsUpTo(UrlNames, MaxFiles) : EnterLoop(urls)
    /\ UNCHANGED <<source_option, flo, df, fs, db_paths, query, results, j, displayed, ui, calls>>

\* st.text_input of the folder path, os.listdir and the extension filter
AcquireFolder ==
    /\ pc = "acquire"
    /\ source_option = "Use files from folder"
    /\ \E given \in {"blank", "invalid", "valid"} :
         \E listing \in {s \in SeqsUpTo(UrlNames, MaxFiles) : IsInjective(s)} :
           LET supported_files == SelectSeq(listing, LAMBDA n : n.ext \in SupportedExts)
           IN CASE given = "blank" ->
                     /\ EnterLoop(<<>>)
                     /\ ui' = ui
                [] given = "invalid" ->
                     /\ EnterLoop(<<>>)
                     /\ ui' = Append(ui, Msg("error_invalid_folder", ""))
                [] OTHER ->
                     /\ EnterLoop(supported_files)
                     /\ ui' = IF supported_files = <<>>
                              THEN Append(ui, Msg("warning_no_files", ""))
                              ELSE ui
    /\ UNCHANGED <<source_option, flo, df, fs, db_paths, query, results, j, displayed, calls>>

\* for filename in DEFAULT_FILES
AcquireGithub ==
    /\ pc = "acquire"
    /\ source_option = "Use default files from GitHub"
    /\ EnterLoop(DEFAULT_FILES)
    /\ UNCHANGED <<source_option, flo, df, fs, db_paths, query, results, j, displayed, ui, calls>>

\* The upload loop writes its copy temp_<name> of the uploaded file
UploadSave ==
    /\ pc = "upload_save"
    /\ fs' = WriteFile(fs, TempPath(items[i]), DataOf(items[i]))
    /\ flo' = PathArg(TempPath(items[i]))
    /\ pc' = "read"
    /\ UNCHANGED <<source_option, items, i, df, db_paths, query, results, j, displayed, ui, calls, status>>

\* file_path = os.path.join(folder_path, file)
FolderPath ==
    /\ pc = "folder_path"
    /\ flo' = PathArg(FolderDir \o FileName(items[i]))
    /\ pc' = "read"
    /\ UNCHANGED <<source_option, items, i, df, fs, db_paths, query, results, j, displayed, ui, calls, status>>

SetStatus(s) == status' = [status EXCEPT ![i] = s]

\* A fetch failure that ends the loop instead of moving to the next item
FetchFailedAborts == i' = i /\ pc' = "query"

\* What the loop does with an item whose fetch failed
FetchFailed == Advance

\* requests.get + raise_for_status of one URL / of one default file
Fetch ==
    /\ pc = "fetch"
    /\ calls' = Append(calls, Call("fetch", FileName(items[i])))
    /\ \E ok \in BOOLEAN :
         IF ok
         THEN /\ flo' = StreamArg(DataOf(items[i]))
              /\ pc' = "read"
              /\ i' = i
              /\ ui' = ui
              /\ status' = status
         ELSE /\ flo' = flo
              /\ FetchFailed
              /\ ui' = Append(ui, Msg("error_fetch", FileName(items[i])))
              /\ SetStatus("fetch_failed")
    /\ UNCHANGED <<source_option, items, df, fs, db_paths, query, results, j, displayed>>

----------------------------------------------------------------------------
\* read_data

\* What a reader gets from its argument: the file at the path (a file of the
\* working directory, else a file of the scanned folder), or the stream's text
InputOf(arg, n, fsys) ==
    IF arg.is_path
    THEN IF Exists(fsys, arg.path) THEN fsys[arg.path].rows ELSE DataOf(n)
    ELSE arg.text

ReadResult(d, fsys, errs, readers) ==
    [df |-> d, fs |-> fsys, errs |-> errs, calls |-> readers]

\* The .xpt branch after pyreadstat.read_xport raised (lines 45-58).
\* open(temp_xpt_path, "wb") creates or truncates temp_<filename>; then
\* file_like_object.getvalue() raises AttributeError when the argument is a
\* path string, so nothing is written and sas7bdat is never called; every
\* exception of the branch skips os.remove and is reported with both errors.
XptFallback(arg, n, fsys, secondary_ok) ==
    LET temp_xpt_path == TempPath(n)
        opened  == WriteFile(fsys, temp_xpt_path, <<>>)
        written == WriteFile(fsys, temp_xpt_path, arg.text)
        both    == <<Msg("error_xpt_both", FileName(n))>>
        primary == Call("read_xport", FileName(n))
        secondary == Call("sas7bdat", FileName(n))
    IN IF arg.is_path
       THEN ReadResult(NoDf, opened, both, <<primary>>)
       ELSE IF secondary_ok
            THEN ReadResult(SomeDf(arg.text), RemoveFile(written, temp_xpt_path), <<>>,
                            <<primary, secondary>>)
            ELSE ReadResult(NoDf, written, both, <<primary, secondary>>)

\* read_data(file_like_object, filename), given what the readers do
ReadData(arg, n, fsys, parse_ok, primary_ok, secondary_ok) ==
    CASE n.ext \in {".csv", ".xlsx"} ->
           IF parse_ok
           THEN ReadResult(SomeDf(InputOf(arg, n, fsys)), fsys, <<>>, <<>>)
           ELSE ReadResult(NoDf, fsys, <<Msg("error_read", FileName(n))>>, <<>>)
      [] n.ext = ".xpt" ->
           IF primary_ok
           THEN ReadResult(SomeDf(InputOf(arg, n, fsys)), fsys, <<>>,
                           <<Call("read_xport", FileName(n))>>)
           ELSE XptFallback(arg, n, fsys, secondary_ok)
      [] OTHER ->
           ReadResult(NoDf, fsys, <<Msg("error_read", FileName(n))>>, <<>>)

\* A decode failure that ends the loop instead of moving to the next item
ReadFailedAborts == i' = i /\ pc' = "query"

\* What the loop does with an item read_data returned None for
ReadFailed == ItemDone

\* df = read_data(...); if df is not None
Read ==
    /\ pc = "read"
    /\ \E parse_ok, primary_ok, secondary_ok \in BOOLEAN :
         LET r == ReadData(flo, items[i], fs, parse_ok, primary_ok, secondary_ok)
         IN /\ df' = r.df
            /\ fs' = r.fs
            /\ ui' = ui \o r.errs
            /\ calls' = calls \o r.calls
            /\ IF r.df.some
               THEN i' = i /\ pc' = "create_db" /\ status' = status
               ELSE ReadFailed /\ SetStatus("decode_failed")
    /\ UNCHANGED <<source_option, items, flo, db_paths, query, results, j, displayed>>

----------------------------------------------------------------------------
\* create_sqlite_db_from_dataframe

\* to_sql with if_exists="append"
ToSqlAppends(tables, table_name, rows) ==
    IF table_name \in DOMAIN tables
    THEN (table_name :> (tables[table_name] \o rows)) @@ tables
    ELSE (table_name :> rows) @@ tables

\* df.to_sql(table_name, conn, if_exists="replace", index=False)
ToSql(tables, table_name, rows) == (table_name :> rows) @@ tables

\* sqlite3.connect(db_path) creates the file when there is none
Connect(fsys, db_path) ==
    IF Exists(fsys, db_path) THEN fsys ELSE (db_path :> DbFile(NoTables)) @@ fsys

\* The disk after create_sqlite_db_from_dataframe(df, db_path, table_name):
\* outcome "ok", or an exception of sqlite3.connect or of df.to_sql
CreateSqliteDb(fsys, d, db_path, table_name, outcome) ==
    CASE outcome = "ok" ->
           LET c == Connect(fsys, db_path)
           IN (db_path :> DbFile(ToSql(c[db_path].tables, table_name, d.rows))) @@ c
      [] outcome = "to_sql_raises" -> Connect(fsys, db_path)
      [] OTHER -> fsys

\* if create_sqlite_db_from_dataframe(...): db_paths.append(db_path)
CreateDb ==
    /\ pc = "create_db"
    /\ \E outcome \in {"ok", "to_sql_raises", "connect_raises"} :
         LET db_path == DbPath(source_option, items[i])
         IN /\ fs' = CreateSqliteDb(fs, df, db_path, TableName(items[i]), outcome)
            /\ IF outcome = "ok"
               THEN /\ db_paths' = Append(db_paths, db_path)
                    /\ ui' = ui
                    /\ SetStatus("loaded")
               ELSE /\ db_paths' = db_paths
                    /\ ui' = Append(ui, Msg("error_create_db", db_path))
                    /\ SetStatus("load_failed")
    /\ ItemDone
    /\ UNCHANGED <<source_option, items, flo, df, query, results, j, displayed, calls>>

\* os.remove(temp_file_path) of the upload loop; os.remove of a missing file raises
UploadRemove ==
    /\ pc = "upload_remove"
    /\ IF Exists(fs, TempPath(items[i]))
       THEN fs' = RemoveFile(fs, TempPath(items[i])) /\ Advance
       ELSE fs' = fs /\ i' = i /\ pc' = "crashed"
    /\ UNCHANGED <<source_option, items, flo, df, db_paths, query, results, j, displayed, ui, calls, status>>

----------------------------------------------------------------------------
\* The query part of main()

\* if db_paths: query = st.text_input(...); if query: ...
QueryPrompt ==
    /\ pc = "query"
    /\ IF db_paths = <<>>
       THEN pc' = "done" /\ query' = query /\ j' = j
       ELSE \E entered \in BOOLEAN :
              /\ query' = entered
              /\ j' = 1
              /\ pc' = IF entered THEN "agent" ELSE "cleanup"
    /\ UNCHANGED <<source_option, items, i, flo, df, fs, db_paths, results, displayed, ui, calls, status>>

Result(k, db, tables) == [kind |-> k, db |-> db, tables |-> tables]

\* A query loop that a failed database ends
AfterAgentAborts(outcome) ==
    IF outcome = "answer" /\ j < Len(db_paths) THEN "agent" ELSE "display"

\* Where the for loop over db_paths goes after one database, whatever became of it
AfterAgent(outcome) == IF j < Len(db_paths) THEN "agent" ELSE "display"

\* One iteration of for db_path in db_paths: create_sql_agent_from_db, then
\* agent_executor.run; the answer is a function of the database the agent reads
Agent ==
    /\ pc = "agent"
    /\ \E outcome \in {"answer", "create_fails", "run_raises"} :
         LET db_path == db_paths[j]
             seen == IF Exists(fs, db_path) THEN fs[db_path].tables ELSE NoTables
         IN /\ CASE outcome = "answer" ->
                      /\ calls' = calls \o <<Call("create", db_path), Call("run", db_path)>>
                      /\ results' = Append(results, Result("answer", db_path, seen))
                      /\ ui' = ui
                 [] outcome = "run_raises" ->
                      /\ calls' = calls \o <<Call("create", db_path), Call("run", db_path)>>
                      /\ results' = Append(results, Result("error", db_path, NoTables))
                      /\ ui' = Append(ui, Msg("error_query", db_path))
                 [] OTHER ->
                      /\ calls' = Append(calls, Call("create", db_path))
                      /\ results' = Append(results, Result("creation_failed", db_path, NoTables))
                      /\ ui' = Append(ui, Msg("error_agent", db_path))
            /\ pc' = AfterAgent(outcome)
            /\ j' = IF pc' = "agent" THEN j + 1 ELSE j
    /\ UNCHANGED <<source_option, items, i, flo, df, fs, db_paths, query, displayed, status>>

\* for result in results: st.write(result)
Display ==
    /\ pc = "display"
    /\ displayed' = results
    /\ j' = 1
    /\ pc' = "cleanup"
    /\ UNCHANGED <<source_option, items, i, flo, df, fs, db_paths, query, results, ui, calls, status>>

\* One iteration of for db_path in db_paths: os.remove(db_path)
Cleanup ==
    /\ pc = "cleanup"
    /\ IF Exists(fs, db_paths[j])
       THEN /\ fs' = RemoveFile(fs, db_paths[j])
            /\ IF j < Len(db_paths)
               THEN j' = j + 1 /\ pc' = "cleanup"
               ELSE j' = j /\ pc' = "done"
       ELSE fs' = fs /\ j' = j /\ pc' = "crashed"
    /\ UNCHANGED <<source_option, items, i, flo, df, db_paths, query, results, displayed, ui, calls, status>>

Next ==
    \/ Start
    \/ AcquireUpload
    \/ AcquireUrl
    \/ AcquireFolder
    \/ AcquireGithub
    \/ UploadSave
    \/ FolderPath
    \/ Fetch
    \/ Read
    \/ CreateDb
    \/ UploadRemove
    \/ QueryPrompt
    \/ Agent
    \/ Display
    \/ Cleanup


Spec == Init /\ [][Next]_vars
----------------------------------------------------------------------------
\* Properties

Indices(n) == [k \in 1..n |-> k]

\* The items loaded so far, in source order
LoadedIdx == SelectSeq(Indices(Len(items)), LAMBDA k : status[k] = "loaded")

\* The database paths of the loaded items, in source order
LoadedDbPaths == [m \in 1..Len(LoadedIdx) |-> DbPath(source_option, items[LoadedIdx[m]])]

LoopOver == pc \in {"query", "agent", "display", "cleanup", "done", "crashed"}

QueryOver == query /\ pc \in {"display", "cleanup", "done", "crashed"}

CallsOf(ops) == SelectSeq(calls, LAMBDA c : c.op \in ops)

MsgsOf(kinds) == SelectSeq(ui, LAMBDA m : m.kind \in kinds)

\* C1: a file read_data returns no table for contributes no entry to db_paths
\* and none to results, and every other file of the batch is still processed:
\* db_paths holds exactly the paths of the files decoded and loaded, in order,
\* and each of them is queried once a query is entered.
C1_DecodeFailureIsolated ==
    /\ db_paths = LoadedDbPaths
    /\ LoopOver => \A k \in 1..Len(items) : status[k] # "pending"
    /\ \A k \in 1..Len(items) :
         status[k] = "decode_failed" => Len(MsgsOf({"error_read", "error_xpt_both"})) >= 1
    /\ QueryOver => /\ Len(results) = Len(LoadedIdx)
                    /\ \A m \in 1..Len(results) : results[m].db = LoadedDbPaths[m]

C1_Witness ==
    /\ pc = "done"
    /\ query
    /\ Len(items) = 3
    /\ status[2] = "decode_failed"
    /\ status[1] = "loaded" /\ status[3] = "loaded"
    /\ Len(db_paths) = 2 /\ Len(results) = 2

\* C2: an .xpt input both readers fail on yields no table and one error naming
\* both failures, and temp_<filename> is not on disk once read_data returned
\* (stated for the modes in which temp_<filename> is written by read_data only).
C2_NoTempFileAfterBothFail ==
    \A k \in 1..Len(items) :
      (/\ source_option # "Upload files"
       /\ items[k].ext = ".xpt"
       /\ status[k] = "decode_failed")
      => /\ \E m \in 1..Len(ui) : ui[m] = Msg("error_xpt_both", FileName(items[k]))
         /\ ~Exists(fs, TempPath(items[k]))

\* C3: replace semantics: a table of a database file holds exactly the rows of
\* the table most recently loaded into that path under that name.
C3_ReplaceSemantics ==
    /\ pc = "create_db" => df = SomeDf(DataOf(items[i]))
    /\ \A k \in 1..Len(items) :
         (/\ status[k] = "loaded"
          /\ Exists(fs, DbPath(source_option, items[k]))
          /\ \A l \in (k + 1)..Len(items) :
               ~(/\ status[l] = "loaded"
                 /\ DbPath(source_option, items[l]) = DbPath(source_option, items[k])
                 /\ TableName(items[l]) = TableName(items[k])))
         => LET f == fs[DbPath(source_option, items[k])]
            IN /\ f.kind = "db"
               /\ TableName(items[k]) \in DOMAIN f.tables
               /\ f.tables[TableName(items[k])] = DataOf(items[k])

C3_Witness ==
    /\ pc = "query"
    /\ Len(items) = 2
    /\ items[1] = items[2]
    /\ status[1] = "loaded" /\ status[2] = "loaded"
    /\ fs[DbPath(source_option, items[2])].tables[TableName(items[2])] = DataOf(items[2])

\* C4: at the end of a run that loaded at least one file, every database file
\* of db_paths and every uploaded-file copy has been deleted from disk.
C4_AllDeletedAtEnd ==
    (pc \in {"done", "crashed"} /\ Len(LoadedIdx) >= 1)
    => /\ \A m \in 1..Len(db_paths) : ~Exists(fs, db_paths[m])
       /\ source_option = "Upload files" =>
            \A k \in 1..Len(items) : ~Exists(fs, TempPath(items[k]))

\* C5: no run of main() ends in an uncaught exception.
C5_NoUncaughtException == pc # "crashed"

\* C6: source files of different names that were loaded never share a database
\* path, and a database file of db_paths holds exactly one table, named by the
\* base name of its source file.
C6_OneDatabasePerSource ==
    /\ \A k, l \in 1..Len(items) :
         (/\ status[k] = "loaded" /\ status[l] = "loaded"
          /\ items[k] # items[l])
         => DbPath(source_option, items[k]) # DbPath(source_option, items[l])
    /\ \A k \in 1..Len(items) :
         (status[k] = "loaded" /\ Exists(fs, DbPath(source_option, items[k])))
         => DOMAIN fs[DbPath(source_option, items[k])].tables = {TableName(items[k])}

\* The calls the query loop makes for results r[1..n], in order
RECURSIVE AgentCalls(_, _)
AgentCalls(r, n) ==
    IF n = 0 THEN <<>>
    ELSE AgentCalls(r, n - 1) \o
         (IF r[n].kind = "creation_failed"
          THEN <<Call("create", db_paths[n])>>
          ELSE <<Call("create", db_paths[n]), Call("run", db_paths[n])>>)

\* C7: a failure to build or to run the agent for one database is reported and
\* recorded as that database's result, and the agent is still built and run
\* exactly once, in order, for every later entry of db_paths.
C7_AgentFailureIsolated ==
    /\ (query /\ pc = "agent") => Len(results) = j - 1
    /\ QueryOver =>
         /\ Len(results) = Len(db_paths)
         /\ CallsOf({"create", "run"}) = AgentCalls(results, Len(db_paths))
         /\ \A m \in 1..Len(results) :
              /\ results[m].db = db_paths[m]
              /\ results[m].kind = "creation_failed" =>
                   \E e \in 1..Len(ui) : ui[e] = Msg("error_agent", db_paths[m])
              /\ results[m].kind = "error" =>
                   \E e \in 1..Len(ui) : ui[e] = Msg("error_query", db_paths[m])
         /\ Len(MsgsOf({"error_agent", "error_query"}))
              = Len(SelectSeq(results, LAMBDA r : r.kind # "answer"))

C7_Witness ==
    /\ pc = "done"
    /\ Len(results) = 4
    /\ results[1].kind = "creation_failed"
    /\ results[2].kind = "error"
    /\ results[3].kind = "answer"
    /\ results[4].kind = "answer"

\* C8: the query is run once against each database in source order and the
\* i-th displayed result is the answer about the i-th loaded source.
C8_ResultsInSourceOrder ==
    (query /\ pc \in {"cleanup", "done", "crashed"}) =>
      /\ Len(displayed) = Len(LoadedIdx)
      /\ \A m \in 1..Len(displayed) :
           /\ displayed[m].db = LoadedDbPaths[m]
           /\ displayed[m].kind = "answer" =>
                displayed[m].tables =
                  (TableName(items[LoadedIdx[m]]) :> DataOf(items[LoadedIdx[m]]))

FetchModes == {"Use files from URL", "Use default files from GitHub"}

\* C9: in the URL and GitHub modes a failed fetch is reported for its item,
\* adds no db_paths entry and no database file, and every item of the list is
\* still fetched, and decoded and loaded when its fetch succeeds.
C9_FetchFailureIsolated ==
    source_option \in FetchModes =>
      /\ db_paths = LoadedDbPaths
      /\ LoopOver =>
           /\ \A k \in 1..Len(items) : status[k] # "pending"
           /\ CallsOf({"fetch"}) = [k \in 1..Len(items) |-> Call("fetch", FileName(items[k]))]
      /\ MsgsOf({"error_fetch"}) =
           [m \in 1..Len(SelectSeq(Indices(Len(items)), LAMBDA k : status[k] = "fetch_failed")) |->
              Msg("error_fetch",
                  FileName(items[SelectSeq(Indices(Len(items)),
                                           LAMBDA k : status[k] = "fetch_failed")[m]]))]
      /\ \A k \in 1..Len(items) :
           (status[k] = "fetch_failed" /\ Exists(fs, DbPath(source_option, items[k])))
           => \E l \in 1..Len(items) :
                /\ l # k
                /\ status[l] \in {"loaded", "load_failed"}
                /\ DbPath(source_option, items[l]) = DbPath(source_option, items[k])

C9_Witness ==
    /\ source_option = "Use files from URL"
    /\ pc = "done"
    /\ Len(items) = 3
    /\ status[1] = "fetch_failed"
    /\ status[2] = "loaded" /\ status[3] = "loaded"
    /\ Len(db_paths) = 2

\* C10: whenever the primary reader fails on an .xpt input, in every source
\* mode, the secondary reader is invoked on a temporary copy, and writing that
\* copy leaves the uploaded-file copy the pipeline reads from intact.
C10_FallbackInEveryMode ==
    /\ \A k \in 1..Len(items) :
         (items[k].ext = ".xpt" /\ status[k] = "decode_failed")
         => \E c \in 1..Len(calls) : calls[c] = Call("sas7bdat", FileName(items[k]))
    /\ (source_option = "Upload files" /\ pc \in {"read", "create_db", "upload_remove"})
         => /\ Exists(fs, TempPath(items[i]))
            /\ fs[TempPath(items[i])] = DataFile(DataOf(items[i]))
====
